---- MODULE Spec2Model ----
(***************************************************************************)
(* A model of the rateless IBLT codec of samWighton/rateless_iblt:         *)
(*   src/src/symbol.rs   the Symbol trait and CodedSymbol                  *)
(*   src/src/mapping.rs  RandomMapping, the per-symbol index generator     *)
(*   src/src/encoder.rs  RatelessIBLT (managed), UnmanagedRatelessIBLT,    *)
(*                       combine / collapse / peel_one_symbol / is_empty   *)
(*   src/examples/basic_usage.rs  the streaming loop of main               *)
(*                                                                         *)
(* A u64 is a sequence of 8 bytes, least significant first, so that the    *)
(* wrapping multiplication and the XOR of the code are computed exactly.   *)
(***************************************************************************)
EXTENDS Integers, Sequences, FiniteSets, TLC

(***************************************************************************)
(* Bounds of the model.                                                    *)
(***************************************************************************)
\* the largest index handed to extend_coded_symbols / get_coded_symbol
MaxIndex == 3
\* the block sizes a build may be compiled with are 1..MaxBlock
MaxBlock == 2
\* the local and the remote set hold at most MaxItems symbols each
MaxItems == 3
\* a run of peel_all_symbols that peels more than MaxPeels symbols is taken
\* to never return (no run of the model that returns peels as many)
MaxPeels == 6
\* a coded symbol on its own has at most MaxCalls symbols applied to it
MaxCalls == 3
\* the other operand of combine / collapse has at most MaxOperand symbols
\* applied to it
MaxOperand == 1
\* at most MaxMappings index mappings on their own, each called at most
\* MaxYields times
MaxMappings == 2
MaxYields == 6

(***************************************************************************)
(* 64-bit arithmetic on little-endian byte sequences.                      *)
(***************************************************************************)
Byte == 256
U64Len == 8

U64Zero == [i \in 1..U64Len |-> 0]

\* the u64 whose value is the small natural n (n < 2^31)
RECURSIVE U64Bytes(_, _)
U64Bytes(n, k) == IF k = 0 THEN <<>> ELSE <<n % Byte>> \o U64Bytes(n \div Byte, k - 1)
U64(n) == U64Bytes(n, U64Len)

\* the bit of weight k of a ^ b, for two bytes (the ^ of u8, and of u64 byte
\* by byte)
XorBit(a, b, k) == (((a \div k) + (b \div k)) % 2) * k

XorByte(a, b) ==
    XorBit(a, b, 1) + XorBit(a, b, 2) + XorBit(a, b, 4) + XorBit(a, b, 8)
    + XorBit(a, b, 16) + XorBit(a, b, 32) + XorBit(a, b, 64) + XorBit(a, b, 128)

\* x ^ y on byte vectors, as the zip().map(|(x, y)| x ^ y) of the code:
\* the result is as long as the shorter operand
XorBytes(x, y) ==
    [i \in 1..(IF Len(x) < Len(y) THEN Len(x) ELSE Len(y)) |-> XorByte(x[i], y[i])]

\* PRNG multiplier of RandomMapping::next, 0xda942042e4dd58b5, low byte first
PRNG_MULTIPLIER == <<181, 88, 221, 228, 66, 32, 148, 218>>

\* column k (0-based) of the schoolbook product x * y
RECURSIVE MulColumn(_, _, _, _)
MulColumn(x, y, k, i) ==
    IF i > k THEN 0
    ELSE x[i + 1] * y[k - i + 1] + MulColumn(x, y, k, i + 1)

\* the low 8 bytes of x * y: u64::wrapping_mul
RECURSIVE MulDigits(_, _, _, _)
MulDigits(x, y, k, carry) ==
    IF k = U64Len THEN <<>>
    ELSE LET t == MulColumn(x, y, k, 0) + carry
         IN  <<t % Byte>> \o MulDigits(x, y, k + 1, t \div Byte)

wrapping_mul(x, y) == MulDigits(x, y, 0, 0)

\* floor((x * m + c) / 2^64) for a u64 x and small naturals m, c
RECURSIVE MulSmallCarry(_, _, _, _)
MulSmallCarry(x, m, c, k) ==
    IF k > U64Len THEN c
    ELSE MulSmallCarry(x, m, (x[k] * m + c) \div Byte, k + 1)

\* r >= 2^64 - 1024 = 0xFFFFFFFFFFFFFC00: the values `r as f64` rounds to 2^64
RoundsToTwo64(r) == (\A k \in 3..U64Len : r[k] = 255) /\ r[2] >= 252

(***************************************************************************)
(* The symbol type of the model: a user type implementing the Symbol       *)
(* trait.  A symbol is a value 0..3 encoded in one byte; the encodings are *)
(* closed under XOR, so decode_from_bytes is total on every sum.           *)
(* hash_ is the overridable method of the trait: the hash function in use  *)
(* is drawn from HashTables at construction.                               *)
(***************************************************************************)
VARIABLES
    hash_table,       \* Symbol::hash_ of the symbol type in use
    overflow_checks,  \* the build panics on integer overflow (debug profile)
    BLOCK_SIZE,       \* encoder.rs BLOCK_SIZE of the build
    local_items,      \* the set handed to the local RatelessIBLT
    remote_items,     \* the set handed to the remote RatelessIBLT
    managed_local,    \* coded_symbols of the local RatelessIBLT
    managed_remote,   \* coded_symbols of the remote RatelessIBLT
    copy_of_remote,   \* coded_symbols of local_copy_of_remote (unmanaged)
    collapsed,        \* coded_symbols of the holder returned by collapse
    combined,         \* coded_symbols of the holder returned by combine
    peeled,           \* the results peeled from `collapsed`, in peel order
    managed_peeled,   \* the results peeled from the local RatelessIBLT itself
    process,          \* "running", or how it ended: "panicked", "looping"
    coded_symbol,     \* a CodedSymbol on its own (symbol.rs 235-273, test_symbol)
    applied,          \* the apply calls made on it since new(): <<symbol, direction>>
    call,             \* the last call made on it: what it was and what it returned
    item_mappings     \* RandomMapping iterators on their own, and what each yielded

vars == <<hash_table, overflow_checks, BLOCK_SIZE, local_items, remote_items,
          managed_local, managed_remote, copy_of_remote, collapsed, combined,
          peeled, managed_peeled, process, coded_symbol, applied, call,
          item_mappings>>

SymbolValues == 0..3

BYTE_ARRAY_LENGTH == 1

encode_to_bytes(s) == <<s>>

decode_from_bytes(bytes) == bytes[1]

hash_(s) == hash_table[s]

\* hash seeds: 1, 5, 6 are ordinary seeds with different index sequences;
\* DupSeed * 0xda942042e4dd58b5 = 2^64 - 1 (mod 2^64); ZeroSeed is 0
DupSeed == <<99, 42, 21, 171, 252, 114, 124, 116>>
ZeroSeed == U64Zero

\* hash_ = the value itself (an override that is homomorphic over XOR)
HashIdentity == [s \in SymbolValues |-> U64(s)]
\* hash_ of the example: only the identifier (value / 2) is hashed, the
\* other field (value % 2) is not
HashOfIdOnly == [s \in SymbolValues |-> U64(5 + (s \div 2))]
\* three ordinary hashes and one whose first PRNG output rounds to 2^64
HashWithDup == [s \in SymbolValues |->
                   IF s = 0 THEN U64(5) ELSE IF s = 1 THEN U64(1)
                   ELSE IF s = 2 THEN U64(6) ELSE DupSeed]

HashTables == {HashIdentity, HashOfIdOnly, HashWithDup}

(***************************************************************************)
(* mapping.rs: RandomMapping.  last_idx is kept exactly below Far; every   *)
(* index at or beyond Far (no stream of the model is longer) is Far.       *)
(***************************************************************************)
\* no stream grows longer: extend is asked for an index of at most
\* MaxIndex + MaxBlock (the length of the other stream, by combine)
MaxLen == MaxIndex + 2 * MaxBlock
Far == MaxLen

\* a faulty new that seeds the PRNG with the encoding of the symbol, not with
\* its hash: C16 fails with it
RandomMapping_new_from_encoding(s) ==
    [prng |-> [i \in 1..U64Len |-> IF i = 1 THEN encode_to_bytes(s)[1] ELSE 0],
     last_idx |-> 0]

RandomMapping_new(s) == [prng |-> hash_(s), last_idx |-> 0]

\* diff.ceil() <= d, for last_idx = last and PRNG output r, d >= 1:
\*   (last + 1.5) * (2^32 / sqrt(r + 1) - 1) <= d
\*   <=>  (r + 1) * (2 last + 3 + 2 d)^2 >= 2^64 * (2 last + 3)^2
DiffAtMost(last, r, d) ==
    LET a == 2 * last + 3
        b == a + 2 * d
    IN  MulSmallCarry(r, b * b, b * b, 1) >= a * a

\* diff.ceil() as u64, capped so that last + diff <= Far: the least d >= 1
\* with diff.ceil() <= d.  `r as f64 + 1.0` is 2^64 when r >= 2^64 - 1024:
\* then sqrt is 2^32 and diff is 0.
RECURSIVE LeastDiff(_, _, _)
LeastDiff(last, r, d) ==
    IF d >= Far - last THEN Far - last
    ELSE IF DiffAtMost(last, r, d) THEN d
    ELSE LeastDiff(last, r, d + 1)

Diff(last, r) == IF RoundsToTwo64(r) THEN 0 ELSE LeastDiff(last, r, 1)

\* a faulty next that returns the index after the one it should: C6 fails
\* with it (no mapping yields position 0)
next_from_one(m) ==
    LET r == wrapping_mul(m.prng, PRNG_MULTIPLIER)
    IN  IF m.last_idx >= Far
        THEN [prng |-> r, last_idx |-> Far, item |-> Far, overflow |-> r = U64Zero]
        ELSE [prng |-> r, last_idx |-> m.last_idx + Diff(m.last_idx, r),
              item |-> m.last_idx + 1, overflow |-> FALSE]

\* Iterator::next of RandomMapping: the new state, the index returned and
\* whether `self.last_idx += diff.ceil() as u64` overflowed.  Beyond Far the
\* addition overflows only when the PRNG is stuck at 0 (hash 0): there
\* last_idx = 6442450943 and diff saturates to u64::MAX.
next(m) ==
    LET r == wrapping_mul(m.prng, PRNG_MULTIPLIER)
    IN  IF m.last_idx >= Far
        THEN [prng |-> r, last_idx |-> Far, item |-> Far, overflow |-> r = U64Zero]
        ELSE [prng |-> r, last_idx |-> m.last_idx + Diff(m.last_idx, r),
              item |-> m.last_idx, overflow |-> FALSE]

\* the iterator that next leaves behind
iterator_after(n) == [prng |-> n.prng, last_idx |-> n.last_idx]

\* next depends on the iterator alone: it is computed once for every state
\* of every iterator the model can create, and looked up afterwards
Seeds == UNION {{table[s] : s \in SymbolValues} : table \in HashTables}

RECURSIVE Orbit(_)
Orbit(m) ==
    IF m.last_idx >= Far THEN {m} ELSE {m} \cup Orbit(iterator_after(next(m)))

RECURSIVE Tabulate(_)
Tabulate(states) ==
    IF states = {} THEN <<>>
    ELSE LET m == CHOOSE x \in states : TRUE
         IN  (m :> next(m)) @@ Tabulate(states \ {m})

NextTable == Tabulate(UNION {Orbit([prng |-> h, last_idx |-> 0]) : h \in Seeds})

\* item_mapping.take_while(|&x| x < bound): the indexes yielded, and whether
\* a call to next panicked.  The overflowing addition panics in a build with
\* overflow checks and wraps otherwise (the wrapped index is still >= bound).
\* take_from continues from n, the outcome of the call to next just made.
yield_first(item, rest) == [items |-> <<item>> \o rest.items, panic |-> rest.panic]

RECURSIVE take_while(_, _)
RECURSIVE take_from(_, _)
take_from(n, bound) ==
    IF n.overflow /\ overflow_checks THEN [items |-> <<>>, panic |-> TRUE]
    ELSE IF n.item >= bound THEN [items |-> <<>>, panic |-> FALSE]
    ELSE yield_first(n.item, take_while(iterator_after(n), bound))

take_while(m, bound) == take_from(NextTable[m], bound)

(***************************************************************************)
(* symbol.rs: CodedSymbol, PeelableResult, Direction.                      *)
(***************************************************************************)
Add == "Add"
Remove == "Remove"

NotPeelable == [kind |-> "NotPeelable"]
Local(s) == [kind |-> "Local", symbol |-> s]
Remote(s) == [kind |-> "Remote", symbol |-> s]

CodedSymbol_new ==
    [sum |-> [i \in 1..BYTE_ARRAY_LENGTH |-> 0], hash |-> U64Zero, count |-> 0]

\* a faulty apply that increments the count whatever the direction: C19 fails
\* with it
apply_always_adding(c, s, direction) ==
    [sum   |-> XorBytes(c.sum, encode_to_bytes(s)),
     hash  |-> XorBytes(c.hash, hash_(s)),
     count |-> c.count + 1]

apply(c, s, direction) ==
    [sum   |-> XorBytes(c.sum, encode_to_bytes(s)),
     hash  |-> XorBytes(c.hash, hash_(s)),
     count |-> IF direction = Add THEN c.count + 1 ELSE c.count - 1]

\* a faulty combine that keeps the sum of the clone of self: C12 fails with it
CodedSymbol_combine_sum_of_self(a, b) ==
    [sum   |-> a.sum,
     hash  |-> XorBytes(a.hash, b.hash),
     count |-> a.count + b.count]

CodedSymbol_combine(a, b) ==
    [sum   |-> XorBytes(a.sum, b.sum),
     hash  |-> XorBytes(a.hash, b.hash),
     count |-> a.count + b.count]

\* faulty variants of CodedSymbol::collapse: the operands of the count
\* swapped (C7 fails with it), the counts added (C8 fails with it)
CodedSymbol_collapse_swapped(a, b) ==
    [sum   |-> XorBytes(a.sum, b.sum),
     hash  |-> XorBytes(a.hash, b.hash),
     count |-> b.count - a.count]

CodedSymbol_collapse_adding(a, b) ==
    [sum   |-> XorBytes(a.sum, b.sum),
     hash  |-> XorBytes(a.hash, b.hash),
     count |-> a.count + b.count]

CodedSymbol_collapse(a, b) ==
    [sum   |-> XorBytes(a.sum, b.sum),
     hash  |-> XorBytes(a.hash, b.hash),
     count |-> a.count - b.count]

is_peelable(c) ==
    /\ c.count = 1 \/ c.count = -1
    /\ c.hash = hash_(decode_from_bytes(c.sum))

\* a faulty peel_peek with the tags exchanged: C5 fails with it
peel_peek_swapped(c) ==
    IF is_peelable(c)
    THEN IF c.count = 1 THEN Remote(decode_from_bytes(c.sum))
         ELSE Local(decode_from_bytes(c.sum))
    ELSE NotPeelable

peel_peek(c) ==
    IF is_peelable(c)
    THEN IF c.count = 1 THEN Local(decode_from_bytes(c.sum))
         ELSE Remote(decode_from_bytes(c.sum))
    ELSE NotPeelable

\* a faulty peel that leaves the coded symbol as it was: C18 fails with it
peel_without_reset(c) == [result |-> peel_peek(c), coded |-> c]

\* peel: the result and the coded symbol it leaves
peel(c) ==
    IF is_peelable(c)
    THEN [result |-> IF c.count = 1 THEN Local(decode_from_bytes(c.sum))
                     ELSE Remote(decode_from_bytes(c.sum)),
          coded  |-> CodedSymbol_new]
    ELSE [result |-> NotPeelable, coded |-> c]

CodedSymbol_is_empty(c) == c.count = 0 /\ c.hash = U64Zero

\* no call has been made on coded_symbol yet
NoCall == [op |-> "none"]

(***************************************************************************)
(* encoder.rs: the functions on blocks of coded symbols.  Index i of the   *)
(* code is element i + 1 of the sequence.                                  *)
(***************************************************************************)
Min(a, b) == IF a < b THEN a ELSE b
Max(a, b) == IF a > b THEN a ELSE b

\* block[i].apply(s, direction) for every i of `items`, in order
RECURSIVE apply_at(_, _, _, _)
apply_at(block, items, s, direction) ==
    IF items = <<>> THEN block
    ELSE apply_at([block EXCEPT ![Head(items) + 1] = apply(@, s, direction)],
                  Tail(items), s, direction)

\* faulty filters: one drops the index current_len itself (C2 fails with
\* it), one keeps every index (C4 fails with it)
filter_after(items, from) == SelectSeq(items, LAMBDA x : x > from)

filter_nothing(items, from) == items

\* the indexes >= from of a sequence of indexes: .filter(|&x| x >= current_len)
filter_from(items, from) == SelectSeq(items, LAMBDA x : x >= from)

\* the inner loop of extend_coded_symbols for one item (encoder.rs 64-71),
\* given the indexes its mapping yields below extend_until
apply_hits(block, item, hits, current_len) ==
    [coded_symbols |-> IF hits.panic THEN block
                       ELSE apply_at(block, filter_from(hits.items, current_len),
                                     item, Add),
     panic |-> hits.panic]

apply_item(block, item, current_len, extend_until) ==
    apply_hits(block, item, take_while(RandomMapping_new(item), extend_until),
               current_len)

\* the loop of extend_coded_symbols over the set (encoder.rs 63-72);
\* `extended` is the stream so far and whether an iteration panicked
RECURSIVE extend_loop(_, _, _, _)
extend_loop(extended, items_left, current_len, extend_until) ==
    IF items_left = {} \/ extended.panic THEN extended
    ELSE extend_loop(
             apply_item(extended.coded_symbols, CHOOSE x \in items_left : TRUE,
                        current_len, extend_until),
             items_left \ {CHOOSE x \in items_left : TRUE},
             current_len, extend_until)

\* a faulty extend_until that ignores the block size: C3 fails with it
extend_until_index_only(index, current_len) == index + 1

extend_until_of(index, current_len) == Max(index + 1, current_len + BLOCK_SIZE)

extend_coded_symbols(coded_symbols, set_iterator, index) ==
    LET current_len == Len(coded_symbols)
        extend_until == extend_until_of(index, current_len)
    IN  IF index < current_len
        THEN [coded_symbols |-> coded_symbols, panic |-> FALSE]
        ELSE extend_loop(
                 [coded_symbols |->
                      coded_symbols
                          \o [i \in 1..(extend_until - current_len) |-> CodedSymbol_new],
                  panic |-> FALSE],
                 set_iterator, current_len, extend_until)

RatelessIBLT_new(set_iterator) == extend_coded_symbols(<<>>, set_iterator, 0)

\* a faulty direction of removal, Add for a Local result: C10 fails with it
remove_direction_swapped(symbol_result) ==
    IF symbol_result.kind = "Local" THEN Add ELSE Remove

remove_direction(symbol_result) ==
    IF symbol_result.kind = "Local" THEN Remove ELSE Add

\* a faulty removal that stops after the first index of the mapping: C21
\* fails with it
remove_hits_first_only(block, symbol_result, hits) ==
    [block |-> apply_at(block, SubSeq(hits.items, 1, 1), symbol_result.symbol,
                        remove_direction(symbol_result)),
     panic |-> hits.panic]

\* the loop of remove_symbol_from_block, given the indexes the mapping of
\* the symbol yields below block.len()
remove_hits(block, symbol_result, hits) ==
    [block |-> apply_at(block, hits.items, symbol_result.symbol,
                        remove_direction(symbol_result)),
     panic |-> hits.panic]

remove_symbol_from_block(block, symbol_result) ==
    remove_hits(block, symbol_result,
                take_while(RandomMapping_new(symbol_result.symbol), Len(block)))

\* a faulty scan that stops at the last peelable coded symbol: C20 fails
\* with it
last_peelable(block) ==
    IF \E i \in 1..Len(block) : is_peelable(block[i])
    THEN CHOOSE i \in 1..Len(block) :
             /\ is_peelable(block[i])
             /\ \A j \in (i + 1)..Len(block) : ~is_peelable(block[j])
    ELSE 0

\* the index (1-based) of the first peelable coded symbol, 0 if there is none
first_peelable(block) ==
    IF \E i \in 1..Len(block) : is_peelable(block[i])
    THEN CHOOSE i \in 1..Len(block) :
             /\ is_peelable(block[i])
             /\ \A j \in 1..(i - 1) : ~is_peelable(block[j])
    ELSE 0

\* peel_one_symbol once the loop has stopped at index i
peeled_as(result, removed) ==
    [block |-> removed.block, result |-> result, panic |-> removed.panic]

peel_at(block, i) ==
    IF i = 0
    THEN [block |-> block, result |-> NotPeelable, panic |-> FALSE]
    ELSE peeled_as(peel_peek(block[i]),
                   remove_symbol_from_block(block, peel_peek(block[i])))

peel_one_symbol(block) == peel_at(block, first_peelable(block))

\* the loop of peel_all_symbols; it has no bound in the code, and `looping`
\* says that it is still peeling after MaxPeels results.  peel_all_next
\* continues from `one`, the outcome of the call to peel_one_symbol just made.
RECURSIVE peel_all_loop(_, _, _)
RECURSIVE peel_all_next(_, _, _)
peel_all_next(one, peeled_symbols, fuel) ==
    IF one.panic
    THEN [block |-> one.block, peeled_symbols |-> peeled_symbols, panic |-> TRUE,
          looping |-> FALSE]
    ELSE IF one.result = NotPeelable
    THEN [block |-> one.block, peeled_symbols |-> peeled_symbols, panic |-> FALSE,
          looping |-> FALSE]
    ELSE IF fuel = 0
    THEN [block |-> one.block, peeled_symbols |-> peeled_symbols, panic |-> FALSE,
          looping |-> TRUE]
    ELSE peel_all_loop(one.block, Append(peeled_symbols, one.result), fuel - 1)

peel_all_loop(block, peeled_symbols, fuel) ==
    peel_all_next(peel_one_symbol(block), peeled_symbols, fuel)

peel_all_symbols(block) == peel_all_loop(block, <<>>, MaxPeels)

\* a faulty combine that collapses position by position: C13 fails with it
combine_collapsing(block_a, block_b) ==
    [i \in 1..Min(Len(block_a), Len(block_b)) |->
        CodedSymbol_collapse(block_a[i], block_b[i])]

combine(block_a, block_b) ==
    [i \in 1..Min(Len(block_a), Len(block_b)) |->
        CodedSymbol_combine(block_a[i], block_b[i])]

\* a faulty collapse that sets every position against the coded symbol
\* received last: C23 fails with it
collapse_against_last(block_local, block_remote) ==
    [i \in 1..Min(Len(block_local), Len(block_remote)) |->
        CodedSymbol_collapse(block_local[i], block_remote[Len(block_remote)])]

\* a faulty collapse that stops one position short: C14 fails with it
collapse_stopping_short(block_local, block_remote) ==
    [i \in 1..(Min(Len(block_local), Len(block_remote)) - 1) |->
        CodedSymbol_collapse(block_local[i], block_remote[i])]

collapse(block_local, block_remote) ==
    [i \in 1..Min(Len(block_local), Len(block_remote)) |->
        CodedSymbol_collapse(block_local[i], block_remote[i])]

is_empty(block) == \A i \in 1..Len(block) : CodedSymbol_is_empty(block[i])

\* self.coded_symbols[index].clone(), after the extension if there was one
indexed(extended, index) ==
    [coded_symbols |-> extended.coded_symbols,
     value |-> IF extended.panic THEN CodedSymbol_new
               ELSE extended.coded_symbols[index + 1],
     panic |-> extended.panic]

get_coded_symbol(coded_symbols, set_iterator, index) ==
    indexed(IF index >= Len(coded_symbols)
            THEN extend_coded_symbols(coded_symbols, set_iterator, index)
            ELSE [coded_symbols |-> coded_symbols, panic |-> FALSE],
            index)

(***************************************************************************)
(* The state machine.  Init is the state after                             *)
(*   RatelessIBLT::new(local_items), RatelessIBLT::new(remote_items) and   *)
(*   UnmanagedRatelessIBLT::new()           (basic_usage.rs 56-73).        *)
(* The two builds differ only where an addition overflows, which needs a   *)
(* symbol whose hash is 0: with no such symbol one build is explored.      *)
(***************************************************************************)
ItemSets == {S \in SUBSET SymbolValues : Cardinality(S) <= MaxItems}

Init ==
    /\ hash_table \in HashTables
    /\ overflow_checks \in
           IF \E s \in SymbolValues : hash_table[s] = U64Zero THEN BOOLEAN ELSE {FALSE}
    /\ BLOCK_SIZE \in 1..MaxBlock
    /\ local_items \in ItemSets
    /\ remote_items \in ItemSets
    /\ \E l \in {RatelessIBLT_new(local_items)}, r \in {RatelessIBLT_new(remote_items)} :
           /\ process = IF l.panic \/ r.panic THEN "panicked" ELSE "running"
           /\ managed_local = IF l.panic \/ r.panic THEN <<>> ELSE l.coded_symbols
           /\ managed_remote = IF l.panic \/ r.panic THEN <<>> ELSE r.coded_symbols
    /\ copy_of_remote = <<>>
    /\ collapsed = <<>>
    /\ combined = <<>>
    /\ peeled = <<>>
    /\ managed_peeled = <<>>
    /\ coded_symbol = CodedSymbol_new
    /\ applied = <<>>
    /\ call = NoCall
    /\ item_mappings = <<>>

\* the operation does not return: it panicked, or it loops for ever
Abort(how) ==
    /\ process' = how
    /\ UNCHANGED <<hash_table, overflow_checks, BLOCK_SIZE, local_items,
                   remote_items, managed_local, managed_remote,
                   copy_of_remote, collapsed, combined, peeled, managed_peeled,
                   coded_symbol, applied, call, item_mappings>>

Frame == UNCHANGED <<hash_table, overflow_checks, BLOCK_SIZE, local_items,
                     remote_items, process, coded_symbol, applied, call,
                     item_mappings>>

\* managed_local_iblt.extend_coded_symbols(index)
ExtendLocal(index) ==
    /\ process = "running"
    /\ \E e \in {extend_coded_symbols(managed_local, local_items, index)} :
           IF e.panic THEN Abort("panicked")
           ELSE /\ managed_local' = e.coded_symbols
                /\ Frame
                /\ UNCHANGED <<managed_remote, copy_of_remote, collapsed, combined,
                               peeled, managed_peeled>>

\* managed_local_iblt.get_coded_symbol(index); the clone returned is dropped
GetLocal(index) ==
    /\ process = "running"
    /\ \E g \in {get_coded_symbol(managed_local, local_items, index)} :
           IF g.panic THEN Abort("panicked")
           ELSE /\ managed_local' = g.coded_symbols
                /\ Frame
                /\ UNCHANGED <<managed_remote, copy_of_remote, collapsed, combined,
                               peeled, managed_peeled>>

\* one round of the loop of main, up to add_coded_symbol (basic_usage.rs
\* 74-79): i is the number of coded symbols received so far; the coded
\* symbol crosses bincode, a crate outside src/, unchanged; the holder
\* `collapsed` of the previous round has gone out of scope
Receive ==
    /\ process = "running"
    /\ Len(copy_of_remote) <= MaxIndex
    /\ \E g \in {get_coded_symbol(managed_remote, remote_items, Len(copy_of_remote))} :
           IF g.panic THEN Abort("panicked")
           ELSE /\ managed_remote' = g.coded_symbols
                /\ copy_of_remote' = Append(copy_of_remote, g.value)
                /\ collapsed' = <<>>
                /\ peeled' = <<>>
                /\ Frame
                /\ UNCHANGED <<managed_local, combined, managed_peeled>>

\* collapsed = managed_local_iblt.collapse(&local_copy_of_remote)
Collapse ==
    /\ process = "running"
    /\ \E e \in {extend_coded_symbols(managed_local, local_items, Len(copy_of_remote))} :
           IF e.panic THEN Abort("panicked")
           ELSE /\ managed_local' = e.coded_symbols
                /\ collapsed' = collapse(e.coded_symbols, copy_of_remote)
                /\ peeled' = <<>>
                /\ Frame
                /\ UNCHANGED <<managed_remote, copy_of_remote, combined, managed_peeled>>

\* combined = managed_local_iblt.combine(&managed_remote_iblt)
Combine ==
    /\ process = "running"
    /\ \E e \in {extend_coded_symbols(managed_local, local_items, Len(managed_remote))} :
           IF e.panic THEN Abort("panicked")
           ELSE /\ managed_local' = e.coded_symbols
                /\ combined' = combine(e.coded_symbols, managed_remote)
                /\ Frame
                /\ UNCHANGED <<managed_remote, copy_of_remote, collapsed, peeled,
                               managed_peeled>>

\* managed_local_iblt.is_empty(): extend_coded_symbols(0), then is_empty
ManagedIsEmpty ==
    /\ process = "running"
    /\ \E e \in {extend_coded_symbols(managed_local, local_items, 0)} :
           IF e.panic THEN Abort("panicked")
           ELSE /\ managed_local' = e.coded_symbols
                /\ Frame
                /\ UNCHANGED <<managed_remote, copy_of_remote, collapsed, combined,
                               peeled, managed_peeled>>

\* collapsed.peel_one_symbol()
PeelOne ==
    /\ process = "running"
    /\ Len(peeled) <= MaxPeels
    /\ \E one \in {peel_one_symbol(collapsed)} :
           IF one.panic THEN Abort("panicked")
           ELSE /\ collapsed' = one.block
                /\ peeled' = IF one.result = NotPeelable THEN peeled
                             ELSE Append(peeled, one.result)
                /\ Frame
                /\ UNCHANGED <<managed_local, managed_remote, copy_of_remote,
                               combined, managed_peeled>>

\* collapsed.peel_all_symbols()
PeelAll ==
    /\ process = "running"
    /\ \E all \in {peel_all_symbols(collapsed)} :
           IF all.panic THEN Abort("panicked")
           ELSE IF all.looping THEN Abort("looping")
           ELSE /\ collapsed' = all.block
                /\ peeled' = peeled \o all.peeled_symbols
                /\ Frame
                /\ UNCHANGED <<managed_local, managed_remote, copy_of_remote,
                               combined, managed_peeled>>

\* managed_local_iblt.peel_one_symbol()
ManagedPeelOne ==
    /\ process = "running"
    /\ Len(managed_peeled) <= MaxPeels
    /\ \E one \in {peel_one_symbol(managed_local)} :
           IF one.panic THEN Abort("panicked")
           ELSE /\ managed_local' = one.block
                /\ managed_peeled' = IF one.result = NotPeelable THEN managed_peeled
                                     ELSE Append(managed_peeled, one.result)
                /\ Frame
                /\ UNCHANGED <<managed_remote, copy_of_remote, collapsed, combined,
                               peeled>>

\* managed_local_iblt.peel_all_symbols()
ManagedPeelAll ==
    /\ process = "running"
    /\ \E all \in {peel_all_symbols(managed_local)} :
           IF all.panic THEN Abort("panicked")
           ELSE IF all.looping THEN Abort("looping")
           ELSE /\ managed_local' = all.block
                /\ managed_peeled' = managed_peeled \o all.peeled_symbols
                /\ Frame
                /\ UNCHANGED <<managed_remote, copy_of_remote, collapsed, combined,
                               peeled>>

\* the streaming loop of main (basic_usage.rs 74-88), its steps taken one by
\* one: receive a coded symbol, collapse, peel the collapsed holder
Next ==
    \/ Receive
    \/ Collapse
    \/ PeelOne
    \/ PeelAll

Spec == Init /\ [][Next]_vars

\* the managed encoder on its own: extend, get, is_empty
NextEncoder ==
    \/ \E index \in 0..MaxIndex : ExtendLocal(index)
    \/ \E index \in 0..MaxIndex : GetLocal(index)
    \/ ManagedIsEmpty

SpecEncoder == Init /\ [][NextEncoder]_vars

\* iblt_remote_unmanaged = UnmanagedRatelessIBLT { coded_symbols:
\* iblt_remote.coded_symbols.clone() }   (encoder.rs 363-365, test_collapsing)
CopyRemote ==
    /\ process = "running"
    /\ copy_of_remote' = managed_remote
    /\ Frame
    /\ UNCHANGED <<managed_local, managed_remote, collapsed, combined, peeled,
                   managed_peeled>>

\* the holders returned by collapse and combine go out of scope
DropHolders ==
    /\ process = "running"
    /\ collapsed # <<>> \/ combined # <<>>
    /\ collapsed' = <<>>
    /\ combined' = <<>>
    /\ peeled' = <<>>
    /\ Frame
    /\ UNCHANGED <<managed_local, managed_remote, copy_of_remote, managed_peeled>>

NoHolder == collapsed = <<>> /\ combined = <<>>

\* every public operation of the managed encoder, its peeling included; the
\* caller drops a returned holder before the next operation
NextManaged ==
    \/ NoHolder /\ NextEncoder
    \/ NoHolder /\ CopyRemote
    \/ NoHolder /\ Collapse
    \/ NoHolder /\ Combine
    \/ NoHolder /\ ManagedPeelOne
    \/ NoHolder /\ ManagedPeelAll
    \/ DropHolders

\* the remote set only feeds combine and collapse here: one symbol at most
InitManaged == Init /\ Cardinality(remote_items) <= 1

SpecManaged == InitManaged /\ [][NextManaged]_vars

(***************************************************************************)
(* A coded symbol on its own: the calls of symbol.rs made on one           *)
(* CodedSymbol, the way test_symbol makes them (symbol.rs 235-273).  No    *)
(* encoder is built; the count stays far from the limits of i64.           *)
(***************************************************************************)
\* the coded symbols that at most k calls of apply make of CodedSymbol::new()
RECURSIVE AppliedUpTo(_)
AppliedUpTo(k) ==
    IF k = 0 THEN {CodedSymbol_new}
    ELSE UNION {{c} \cup {apply(c, s, d) : s \in SymbolValues, d \in {Add, Remove}} :
                c \in AppliedUpTo(k - 1)}

Operands == AppliedUpTo(MaxOperand)

InitCodedSymbol ==
    /\ hash_table \in HashTables
    /\ overflow_checks = FALSE
    /\ BLOCK_SIZE = 1
    /\ local_items = {}
    /\ remote_items = {}
    /\ managed_local = <<>>
    /\ managed_remote = <<>>
    /\ copy_of_remote = <<>>
    /\ collapsed = <<>>
    /\ combined = <<>>
    /\ peeled = <<>>
    /\ managed_peeled = <<>>
    /\ process = "running"
    /\ coded_symbol = CodedSymbol_new
    /\ applied = <<>>
    /\ call = NoCall
    /\ item_mappings = <<>>

NoEncoder ==
    UNCHANGED <<hash_table, overflow_checks, BLOCK_SIZE, local_items, remote_items,
                managed_local, managed_remote, copy_of_remote, collapsed, combined,
                peeled, managed_peeled, process, item_mappings>>

\* coded_symbol.apply(&s, direction)
CallApply(s, direction) ==
    /\ Len(applied) < MaxCalls
    /\ coded_symbol' = apply(coded_symbol, s, direction)
    /\ applied' = Append(applied, <<s, direction>>)
    /\ call' = [op |-> "apply", s |-> s, direction |-> direction,
                before |-> coded_symbol]
    /\ NoEncoder

\* coded_symbol.combine(&b)
CallCombine(b) ==
    /\ call' = [op |-> "combine", b |-> b, before |-> coded_symbol,
                returned |-> CodedSymbol_combine(coded_symbol, b)]
    /\ UNCHANGED <<coded_symbol, applied>>
    /\ NoEncoder

\* coded_symbol.collapse(&b)
CallCollapse(b) ==
    /\ call' = [op |-> "collapse", b |-> b, before |-> coded_symbol,
                returned |-> CodedSymbol_collapse(coded_symbol, b)]
    /\ UNCHANGED <<coded_symbol, applied>>
    /\ NoEncoder

\* coded_symbol.is_peelable()
CallIsPeelable ==
    /\ call' = [op |-> "is_peelable", before |-> coded_symbol,
                returned |-> is_peelable(coded_symbol)]
    /\ UNCHANGED <<coded_symbol, applied>>
    /\ NoEncoder

\* coded_symbol.is_empty()
CallIsEmpty ==
    /\ call' = [op |-> "is_empty", before |-> coded_symbol,
                returned |-> CodedSymbol_is_empty(coded_symbol)]
    /\ UNCHANGED <<coded_symbol, applied>>
    /\ NoEncoder

\* coded_symbol.peel_peek()
CallPeelPeek ==
    /\ call' = [op |-> "peel_peek", before |-> coded_symbol,
                returned |-> peel_peek(coded_symbol)]
    /\ UNCHANGED <<coded_symbol, applied>>
    /\ NoEncoder

\* coded_symbol.peel(): a peeled coded symbol is CodedSymbol::new() again
CallPeel ==
    /\ \E p \in {peel(coded_symbol)} :
           /\ coded_symbol' = p.coded
           /\ applied' = IF p.result = NotPeelable THEN applied ELSE <<>>
           /\ call' = [op |-> "peel", before |-> coded_symbol, returned |-> p.result]
    /\ NoEncoder

NextCodedSymbol ==
    \/ \E s \in SymbolValues, direction \in {Add, Remove} : CallApply(s, direction)
    \/ \E b \in Operands : CallCombine(b)
    \/ \E b \in Operands : CallCollapse(b)
    \/ CallIsPeelable
    \/ CallIsEmpty
    \/ CallPeelPeek
    \/ CallPeel

SpecCodedSymbol == InitCodedSymbol /\ [][NextCodedSymbol]_vars

(***************************************************************************)
(* Index mappings on their own: RandomMapping::new and Iterator::next      *)
(* called directly, the way test_mapping does (mapping.rs 41-60).  Each    *)
(* entry of item_mappings keeps the symbol it was created from and its     *)
(* hash, the iterator (prng, last_idx), the indexes returned so far and    *)
(* whether an addition to last_idx has wrapped.                            *)
(***************************************************************************)
InitMapping ==
    /\ hash_table \in HashTables
    /\ overflow_checks \in BOOLEAN
    /\ BLOCK_SIZE = 1
    /\ local_items = {}
    /\ remote_items = {}
    /\ managed_local = <<>>
    /\ managed_remote = <<>>
    /\ copy_of_remote = <<>>
    /\ collapsed = <<>>
    /\ combined = <<>>
    /\ peeled = <<>>
    /\ managed_peeled = <<>>
    /\ process = "running"
    /\ coded_symbol = CodedSymbol_new
    /\ applied = <<>>
    /\ call = NoCall
    /\ item_mappings = <<>>

NoCodec ==
    UNCHANGED <<hash_table, overflow_checks, BLOCK_SIZE, local_items, remote_items,
                managed_local, managed_remote, copy_of_remote, collapsed, combined,
                peeled, managed_peeled, coded_symbol, applied, call>>

\* let rm = RandomMapping::new(&given_symbol)
NewMapping(given_symbol) ==
    /\ process = "running"
    /\ Len(item_mappings) < MaxMappings
    /\ item_mappings' = Append(item_mappings,
                               [symbol   |-> given_symbol,
                                hash     |-> hash_(given_symbol),
                                iterator |-> RandomMapping_new(given_symbol),
                                yielded  |-> <<>>,
                                wrapped  |-> FALSE])
    /\ UNCHANGED process
    /\ NoCodec

\* rm.next() on mapping number i: the overflowing addition panics in a build
\* with overflow checks and wraps otherwise
CallNext(i) ==
    /\ process = "running"
    /\ i \in 1..Len(item_mappings)
    /\ Len(item_mappings[i].yielded) < MaxYields
    /\ \E n \in {next(item_mappings[i].iterator)} :
           IF n.overflow /\ overflow_checks THEN Abort("panicked")
           ELSE /\ item_mappings' =
                       [item_mappings EXCEPT ![i] =
                           [symbol   |-> @.symbol,
                            hash     |-> @.hash,
                            iterator |-> iterator_after(n),
                            yielded  |-> Append(@.yielded, n.item),
                            wrapped  |-> @.wrapped \/ n.overflow]]
                /\ UNCHANGED process
                /\ NoCodec

NextMapping ==
    \/ \E given_symbol \in SymbolValues : NewMapping(given_symbol)
    \/ \E i \in 1..MaxMappings : CallNext(i)

SpecMapping == InitMapping /\ [][NextMapping]_vars

(***************************************************************************)
(* What the claims speak of: the positions of a symbol, and the coded      *)
(* symbol that a signed collection of symbols folds into at one position.  *)
(***************************************************************************)
\* the positions below MaxLen that the mapping of s yields, in order
Positions(s) == take_while(RandomMapping_new(s), MaxLen).items

PositionsTable == [s \in SymbolValues |-> Positions(s)]

\* how many times the mapping of s yields position p
Times(table, s, p) == Cardinality({k \in 1..Len(table[s]) : table[s][k] = p})

\* the coded symbol holding each symbol s of `todo` w[s] times for every time
\* its mapping yields p (w[s] < 0: on the remote side)
RECURSIVE FoldAt(_, _, _, _)
FoldAt(table, w, p, todo) ==
    IF todo = {} THEN CodedSymbol_new
    ELSE LET s == CHOOSE x \in todo : TRUE
             rest == FoldAt(table, w, p, todo \ {s})
             n == w[s] * Times(table, s, p)
         IN  [sum   |-> IF n % 2 = 0 THEN rest.sum
                        ELSE XorBytes(rest.sum, encode_to_bytes(s)),
              hash  |-> IF n % 2 = 0 THEN rest.hash
                        ELSE XorBytes(rest.hash, hash_(s)),
              count |-> rest.count + n]

Weights(L, R) ==
    [s \in SymbolValues |-> (IF s \in L THEN 1 ELSE 0) - (IF s \in R THEN 1 ELSE 0)]

\* position p of the stream of the set S, whatever produced it
StreamAt(table, S, p) == FoldAt(table, Weights(S, {}), p, SymbolValues)

Running == process = "running"

(***************************************************************************)
(* C1.  After new(S) and any sequence of extend / get calls, every         *)
(* materialised position p holds the fold of its contributors, the symbols *)
(* of S whose mapping contains p: count is their number, sum the XOR of    *)
(* their encodings, hash the XOR of their hashes.                          *)
(***************************************************************************)
Contributors(table, S, p) ==
    {s \in S : \E k \in 1..Len(table[s]) : table[s][k] = p}

RECURSIVE XorOver(_, _, _)
XorOver(f(_), S, zero) ==
    IF S = {} THEN zero
    ELSE LET s == CHOOSE x \in S : TRUE
         IN  XorBytes(XorOver(f, S \ {s}, zero), f(s))

FoldOfContributors(table, S, p) ==
    LET c == Contributors(table, S, p)
    IN  [sum   |-> XorOver(encode_to_bytes, c, CodedSymbol_new.sum),
         hash  |-> XorOver(hash_, c, U64Zero),
         count |-> Cardinality(c)]

C1_FoldOfContributors ==
    Running =>
        LET table == PositionsTable
        IN  \A p \in 0..(Len(managed_local) - 1) :
                managed_local[p + 1] = FoldOfContributors(table, local_items, p)

(***************************************************************************)
(* C2.  The content of a materialised position depends on the set and the  *)
(* position alone, not on the calls to extend that produced it nor on      *)
(* BLOCK_SIZE: it is StreamAt, which reads neither; and two encoders over  *)
(* the same set, extended differently, agree wherever both are             *)
(* materialised.                                                           *)
(***************************************************************************)
C2_HistoryIndependent ==
    Running =>
        LET table == PositionsTable
        IN  /\ \A p \in 0..(Len(managed_local) - 1) :
                   managed_local[p + 1] = StreamAt(table, local_items, p)
            /\ local_items = remote_items =>
                   \A p \in 0..(Min(Len(managed_local), Len(managed_remote)) - 1) :
                       managed_local[p + 1] = managed_remote[p + 1]

\* the local encoder was extended past its first block, in more than one way
\* of reaching the length, and holds symbols beyond the first block
C2_Witness ==
    /\ Running
    /\ local_items = remote_items
    /\ Len(managed_local) > Len(managed_remote)
    /\ \E p \in (BLOCK_SIZE + 1)..Len(managed_local) : managed_local[p].count > 0

(***************************************************************************)
(* C3.  new() leaves BLOCK_SIZE coded symbols.  extend(to_index) on a      *)
(* stream of length n leaves the stream unchanged if to_index < n, and     *)
(* otherwise makes its length max(to_index + 1, n + BLOCK_SIZE); either    *)
(* way the length exceeds to_index afterwards, and so it does after        *)
(* get(to_index), which then reads inside the stream.                      *)
(***************************************************************************)
ExtendedAsSpecified(index) ==
    /\ IF index < Len(managed_local)
       THEN managed_local' = managed_local
       ELSE Len(managed_local') = Max(index + 1, Len(managed_local) + BLOCK_SIZE)
    /\ Len(managed_local') > index

C3_ExtendLength ==
    /\ Running => Len(managed_local) = BLOCK_SIZE
    /\ [][\A index \in 0..MaxIndex :
              (Running' /\ (ExtendLocal(index) \/ GetLocal(index)))
                  => ExtendedAsSpecified(index)]_vars

\* an extension whose length was set by to_index + 1, not by the block
C3_Witness ==
    /\ Running
    /\ BLOCK_SIZE = 1
    /\ Len(managed_local) = MaxIndex + 1

(***************************************************************************)
(* C4.  As claimed: once a position is materialised, no public operation   *)
(* of the managed encoder changes it, peel_one_symbol and peel_all_symbols *)
(* included.                                                               *)
(***************************************************************************)
PrefixKept ==
    \A p \in 1..Len(managed_local) :
        p <= Len(managed_local') /\ managed_local'[p] = managed_local[p]

C4_NoOperationChanges == [][PrefixKept]_vars

(***************************************************************************)
(* C4, amended.  extend, get, combine, collapse and is_empty never change  *)
(* a materialised position of the managed encoder; only a step that peels  *)
(* a symbol from the managed encoder itself does (it removes the symbol    *)
(* from every position of its mapping).                                    *)
(***************************************************************************)
C4_OnlyPeelingChanges == [][managed_peeled' = managed_peeled => PrefixKept]_vars

\* the encoder was extended by a collapse or a combine and holds symbols
C4_Witness ==
    /\ Running
    /\ collapsed # <<>> \/ combined # <<>>
    /\ Len(managed_local) > BLOCK_SIZE
    /\ managed_peeled = <<>>
    /\ \E p \in 1..Len(managed_local) : managed_local[p].count > 0

(***************************************************************************)
(* The decoder's view.  `collapsed` is collapse(local stream, remote       *)
(* stream) at prefix length N = Len(collapsed), less what has been peeled. *)
(***************************************************************************)
\* the holder as collapse returned it, before any peel
CollapsedAt(table, L, R, N) ==
    [p \in 1..N |-> FoldAt(table, Weights(L, R), p - 1, SymbolValues)]

\* the weights once a result has been removed
Residual(w, result) ==
    [w EXCEPT ![result.symbol] = IF result.kind = "Local" THEN @ - 1 ELSE @ + 1]

RECURSIVE ResidualAfter(_, _)
ResidualAfter(w, results) ==
    IF results = <<>> THEN w
    ELSE ResidualAfter(Residual(w, Head(results)), Tail(results))

\* the symbols not yet recovered that position p still holds
Holding(table, w, p) ==
    {s \in SymbolValues : w[s] # 0 /\ Times(table, s, p) > 0}

\* the hash check admitted no false singleton in the first k peels: each
\* coded symbol that was peeled held exactly one unrecovered symbol
RECURSIVE TrueSingletonsOnly(_, _, _, _)
TrueSingletonsOnly(table, block, w, k) ==
    \/ k = 0
    \/ LET i == first_peelable(block)
       IN  \/ i = 0
           \/ /\ Cardinality(Holding(table, w, i - 1)) = 1
              /\ TrueSingletonsOnly(table, peel_one_symbol(block).block,
                                    Residual(w, peel_peek(block[i])), k - 1)

NoFalseSingleton ==
    LET table == PositionsTable
    IN  TrueSingletonsOnly(
            table,
            CollapsedAt(table, local_items, remote_items, Len(collapsed)),
            Weights(local_items, remote_items), Len(peeled))

LocalResults == {peeled[j].symbol : j \in {k \in 1..Len(peeled) : peeled[k].kind = "Local"}}
RemoteResults == {peeled[j].symbol : j \in {k \in 1..Len(peeled) : peeled[k].kind = "Remote"}}

NoRepeats ==
    \A j, k \in 1..Len(peeled) : j # k => peeled[j].symbol # peeled[k].symbol

\* peel_all_symbols has returned: no coded symbol of the holder is peelable
PeelingDone == collapsed # <<>> /\ first_peelable(collapsed) = 0

ResultsExact ==
    /\ LocalResults = local_items \ remote_items
    /\ RemoteResults = remote_items \ local_items
    /\ NoRepeats

(***************************************************************************)
(* C5.  When the hash check admits no false singleton, every result of     *)
(* peeling collapse(local stream, remote stream) is Local(s) with s in the *)
(* local set only or Remote(s) with s in the remote set only, and no       *)
(* symbol is returned twice.                                               *)
(***************************************************************************)
C5_ResultsBelong ==
    (Running /\ NoFalseSingleton) =>
        /\ LocalResults \subseteq local_items \ remote_items
        /\ RemoteResults \subseteq remote_items \ local_items
        /\ NoRepeats

\* a two-sided difference peeled under the contract, over several positions
C5_Witness ==
    /\ Running
    /\ NoFalseSingleton
    /\ Len(collapsed) >= 2
    /\ LocalResults # {}
    /\ RemoteResults # {}

NoFalseEmpty ==
    LET table == PositionsTable
        w == ResidualAfter(Weights(local_items, remote_items), peeled)
    IN  \A p \in 1..Len(collapsed) :
            CodedSymbol_is_empty(collapsed[p]) => Holding(table, w, p - 1) = {}

C7_SupersetRecoversRemote ==
    (Running /\ remote_items \subseteq local_items
        /\ PeelingDone /\ is_empty(collapsed)) =>
        /\ RemoteResults = local_items \ remote_items
        /\ LocalResults = {}

(***************************************************************************)
(* C7, amended.  With local set A \cup B and remote set A, every result of *)
(* peeling collapse(stream(A \cup B), stream(A)) is Local(b) with b in B,  *)
(* no symbol twice and none tagged Remote; once the holder is empty the    *)
(* results are exactly B.                                                  *)
(***************************************************************************)
C7_SupersetRecoversLocal ==
    (Running /\ remote_items \subseteq local_items) =>
        /\ RemoteResults = {}
        /\ LocalResults \subseteq local_items \ remote_items
        /\ NoRepeats
        /\ (PeelingDone /\ is_empty(collapsed)) =>
               LocalResults = local_items \ remote_items

\* B recovered from a superset whose common part A is not empty
C7_Witness ==
    /\ Running
    /\ remote_items # {}
    /\ remote_items \subseteq local_items
    /\ PeelingDone
    /\ is_empty(collapsed)
    /\ LocalResults = local_items \ remote_items
    /\ LocalResults # {}

(***************************************************************************)
(* C8.  When the two sets are equal, every coded symbol of the collapsed   *)
(* holder is all zero (count 0, hash 0, sum of zero bytes), peel_all       *)
(* returns nothing and is_empty is true.                                   *)
(***************************************************************************)
C8_EqualSetsCollapseToZero ==
    (Running /\ local_items = remote_items) =>
        /\ \A p \in 1..Len(collapsed) : collapsed[p] = CodedSymbol_new
        /\ peel_all_symbols(collapsed).peeled_symbols = <<>>
        /\ peeled = <<>>
        /\ is_empty(collapsed)

\* equal sets that are not empty, collapsed over several positions
C8_Witness ==
    /\ Running
    /\ local_items = remote_items
    /\ local_items # {}
    /\ Len(collapsed) >= 2

(***************************************************************************)
(* C9.  As claimed: when the remote set is the local set plus one symbol x *)
(* then for every N >= 1 peel_all_symbols returns exactly [Remote(x)] and  *)
(* leaves the holder empty; with the roles swapped it returns [Local(x)].  *)
(***************************************************************************)
C9_SingleDifferenceAtEveryLength ==
    (Running /\ PeelingDone) =>
        /\ \A x \in remote_items \ local_items :
               remote_items = local_items \cup {x} =>
                   peeled = <<Remote(x)>> /\ is_empty(collapsed)
        /\ \A x \in local_items \ remote_items :
               local_items = remote_items \cup {x} =>
                   peeled = <<Local(x)>> /\ is_empty(collapsed)

(***************************************************************************)
(* C10.  As claimed: every successful peel_one_symbol strictly decreases   *)
(* the sum over the coded symbols of the holder of |count|.                *)
(***************************************************************************)
Abs(n) == IF n < 0 THEN -n ELSE n

RECURSIVE SumAbsCount(_)
SumAbsCount(block) ==
    IF block = <<>> THEN 0 ELSE Abs(Head(block).count) + SumAbsCount(Tail(block))

PeelDecreases == SumAbsCount(collapsed') < SumAbsCount(collapsed)

C10_EveryPeelDecreases ==
    [][(PeelOne /\ peeled' # peeled) => PeelDecreases]_vars

(***************************************************************************)
(* C10, amended.  A successful peel_one_symbol strictly decreases the sum  *)
(* of |count| when the difference is one-sided (one set contains the       *)
(* other): all counts then have one sign.  With symbols on both sides the  *)
(* sum can grow.                                                           *)
(***************************************************************************)
OneSided == local_items \subseteq remote_items \/ remote_items \subseteq local_items

C10_OneSidedPeelDecreases ==
    [][(OneSided /\ PeelOne /\ peeled' # peeled) => PeelDecreases]_vars

\* a one-sided difference of two symbols, one of them peeled, over several
\* positions
C10_Witness ==
    /\ Running
    /\ OneSided
    /\ Len(collapsed) >= 2
    /\ Len(peeled) = 1
    /\ ~is_empty(collapsed)

(***************************************************************************)
(* C11  peel_all_symbols terminates on every stream: after finitely many   *)
(* results peel_one_symbol returns NotPeelable and the call returns what   *)
(* it has collected, whether or not the stream is empty by then.           *)
(* The code does not: where the hash check admits a coded symbol that      *)
(* holds more than one symbol, removing the decoded symbol can bring back  *)
(* a stream the loop has already had, and the loop never ends.             *)
(***************************************************************************)
C11_PeelAllTerminates == process # "looping"

\* the loop of peel_all_symbols, started on `block`, comes back to a stream
\* it has already had (one of `seen`): from there on it repeats for ever,
\* peel_one_symbol being a function of the stream alone
RECURSIVE ComesBack(_, _, _)
RECURSIVE ComesBackNext(_, _, _)
ComesBackNext(one, seen, fuel) ==
    IF one.panic \/ one.result = NotPeelable THEN FALSE
    ELSE IF one.block \in seen THEN TRUE
    ELSE IF fuel = 0 THEN FALSE
    ELSE ComesBack(one.block, seen \cup {one.block}, fuel - 1)

ComesBack(block, seen, fuel) == ComesBackNext(peel_one_symbol(block), seen, fuel)

\* every call of peel_all_symbols that the model takes to never return is
\* caught in such a repetition
LoopingIsRepetition ==
    [][process' = "looping" => ComesBack(collapsed, {collapsed}, 2 * MaxPeels)]_vars

(***************************************************************************)
(* C12  combine on coded symbols is commutative and associative: for all   *)
(* coded symbols a, b, c, a.combine(b) = b.combine(a) and                  *)
(* a.combine(b).combine(c) = a.combine(b.combine(c)), on sum, hash, count. *)
(* Here a is the coded symbol combine was called on, b its argument and c  *)
(* any coded symbol with at most MaxOperand + 1 symbols applied.           *)
(***************************************************************************)
C12_CombineCommutesAndAssociates ==
    call.op = "combine" =>
        /\ call.returned = CodedSymbol_combine(call.b, call.before)
        /\ \A c \in AppliedUpTo(MaxOperand + 1) :
               CodedSymbol_combine(call.returned, c)
                   = CodedSymbol_combine(call.before, CodedSymbol_combine(call.b, c))

\* combine has been called on a coded symbol holding two symbols, with an
\* argument that holds another one, removed
C12_Witness ==
    /\ call.op = "combine"
    /\ call.before.count = 2
    /\ call.b.count = -1
    /\ call.returned.count = 1
    /\ call.b.sum # call.before.sum
    /\ call.returned.hash # U64Zero

(***************************************************************************)
(* C13  For disjoint sets A and B, the position-wise combine of the stream *)
(* of A and the stream of B is the stream of A \cup B at every position of *)
(* the common prefix: sum, hash and count.  A is the set of the local      *)
(* encoder (not peeled), B the set of the remote encoder.                  *)
(***************************************************************************)
UnionStream ==
    LET table == PositionsTable
    IN  \A p \in 0..(Len(combined) - 1) :
            combined[p + 1] = StreamAt(table, local_items \cup remote_items, p)

C13_CombineIsUnionStream ==
    (/\ Running
     /\ combined # <<>>
     /\ managed_peeled = <<>>
     /\ local_items \cap remote_items = {}) => UnionStream

\* two positions or more were combined, of two symbols and one other symbol
C13_Witness ==
    /\ Running
    /\ Len(combined) >= 2
    /\ managed_peeled = <<>>
    /\ local_items \cap remote_items = {}
    /\ Cardinality(local_items) >= 2
    /\ remote_items # {}
    /\ combined[2].count >= 2

(***************************************************************************)
(* C14  collapse and combine of two streams of lengths m and n return a    *)
(* stream of length min(m, n) whose entry i is made of entries i of the    *)
(* two inputs.  collapse(other) and combine(other) of the managed encoder  *)
(* first extend self past the length of other, so that their result has    *)
(* exactly the length of other.                                            *)
(***************************************************************************)
Zipped(f(_, _), result, x, y) ==
    /\ Len(result) = Min(Len(x), Len(y))
    /\ \A i \in 1..Len(result) : result[i] = f(x[i], y[i])

\* the streams at hand: the first may be the shorter or the longer one
StreamsAtHand == {managed_local, managed_remote, copy_of_remote}

TruncatedToShorter ==
    \A x \in StreamsAtHand, y \in StreamsAtHand :
        /\ Zipped(CodedSymbol_collapse, collapse(x, y), x, y)
        /\ Zipped(CodedSymbol_combine, combine(x, y), x, y)

CollapsedToLengthOfOther ==
    /\ Len(managed_local') > Len(copy_of_remote)
    /\ Len(collapsed') = Len(copy_of_remote)
    /\ Zipped(CodedSymbol_collapse, collapsed', managed_local', copy_of_remote)

CombinedToLengthOfOther ==
    /\ Len(managed_local') > Len(managed_remote)
    /\ Len(combined') = Len(managed_remote)
    /\ Zipped(CodedSymbol_combine, combined', managed_local', managed_remote)

C14_LengthOfShorter ==
    /\ [](Running => TruncatedToShorter)
    /\ [][(Running' /\ Collapse) => CollapsedToLengthOfOther]_vars
    /\ [][(Running' /\ Combine) => CombinedToLengthOfOther]_vars

\* a collapse that had to extend the local encoder, which is now longer than
\* the stream it was collapsed against by more than one position
C14_Witness ==
    /\ Running
    /\ collapsed # <<>>
    /\ Len(collapsed) = Len(copy_of_remote)
    /\ Len(managed_local) > Len(collapsed) + 1
    /\ \E i \in 1..Len(collapsed) : collapsed[i].count # 0

(***************************************************************************)
(* C15  For every hash, the indexes a mapping returns are strictly         *)
(* increasing: each call to next returns an index greater than the one     *)
(* before (a diff of 0 is forced to 1).  Indexes at or beyond Far are not  *)
(* told apart here, so the comparison is made where the earlier index is   *)
(* below Far.                                                              *)
(* The code forces nothing: where `r as f64 + 1.0` rounds to 2^64 the diff *)
(* is 0 and the same index is returned twice.                              *)
(***************************************************************************)
StrictlyIncreasing(yielded) ==
    \A k \in 1..(Len(yielded) - 1) : yielded[k] < Far => yielded[k] < yielded[k + 1]

C15_StrictlyIncreasing ==
    \A i \in 1..Len(item_mappings) : StrictlyIncreasing(item_mappings[i].yielded)

(***************************************************************************)
(* C16  The mapping is a function of the hash alone: two mappings created  *)
(* from symbols with equal hash return the same k-th index for every k,    *)
(* and after k calls prng = hash * C^k mod 2^64, C = 0xDA942042E4DD58B5.   *)
(***************************************************************************)
\* C^k mod 2^64
RECURSIVE MultiplierToThe(_)
MultiplierToThe(k) ==
    IF k = 0 THEN U64(1) ELSE wrapping_mul(MultiplierToThe(k - 1), PRNG_MULTIPLIER)

SameIndexes(a, b) ==
    \A k \in 1..Min(Len(a.yielded), Len(b.yielded)) : a.yielded[k] = b.yielded[k]

C16_DeterminedByHash ==
    Running =>
        /\ \A i \in 1..Len(item_mappings) :
               item_mappings[i].iterator.prng
                   = wrapping_mul(item_mappings[i].hash,
                                  MultiplierToThe(Len(item_mappings[i].yielded)))
        /\ \A i \in 1..Len(item_mappings), j \in 1..Len(item_mappings) :
               item_mappings[i].hash = item_mappings[j].hash
                   => SameIndexes(item_mappings[i], item_mappings[j])

\* two mappings made from different symbols with the same hash, each called
\* until its indexes left the horizon of the model
C16_Witness ==
    /\ Running
    /\ Len(item_mappings) = 2
    /\ item_mappings[1].symbol # item_mappings[2].symbol
    /\ item_mappings[1].hash = item_mappings[2].hash
    /\ \A i \in 1..2 :
           /\ Len(item_mappings[i].yielded) >= 4
           /\ item_mappings[i].yielded[3] < Far
           /\ item_mappings[i].yielded[Len(item_mappings[i].yielded)] = Far

(***************************************************************************)
(* C17  The mapping is an infinite generator for every hash, 0 included:   *)
(* every call to next returns an index, and the update of last_idx never   *)
(* overflows 64 bits (no panic, no wrapped index), so that the take_while  *)
(* of extend and of peel always completes.                                 *)
(* The code overflows at the second call when the hash is 0: the PRNG      *)
(* stays at 0, the first diff is 6442450943 and the second one saturates   *)
(* the cast to u64.                                                        *)
(***************************************************************************)
C17_NeverOverflows ==
    /\ process # "panicked"
    /\ \A i \in 1..Len(item_mappings) : ~item_mappings[i].wrapped

(***************************************************************************)
(* C18  peel on a coded symbol that is not peelable (count neither 1 nor   *)
(* -1, or hash different from the hash of the decoded sum) returns         *)
(* NotPeelable and leaves sum, hash and count as they were; on a peelable  *)
(* one it returns what peel_peek returns, Local(decode(sum)) for count 1   *)
(* and Remote(decode(sum)) for count -1, and leaves CodedSymbol::new().    *)
(* peel_peek never changes the coded symbol.                               *)
(***************************************************************************)
Peelable(c) ==
    /\ c.count \in {1, -1}
    /\ c.hash = hash_(decode_from_bytes(c.sum))

PeeledAsClaimed(before, returned, after) ==
    IF Peelable(before)
    THEN /\ returned = peel_peek(before)
         /\ returned = [kind   |-> IF before.count = 1 THEN "Local" ELSE "Remote",
                        symbol |-> decode_from_bytes(before.sum)]
         /\ after = CodedSymbol_new
    ELSE /\ returned = NotPeelable
         /\ after = before

C18_PeelAndPeek ==
    /\ call.op = "peel" => PeeledAsClaimed(call.before, call.returned, coded_symbol)
    /\ call.op = "peel_peek" =>
           /\ coded_symbol = call.before
           /\ call.returned = IF Peelable(call.before)
                              THEN peel(call.before).result ELSE NotPeelable

\* peel was refused by the hash check alone: the count was 1, three symbols
\* had been applied, and the coded symbol is as it was
C18_Witness ==
    /\ call.op = "peel"
    /\ call.before.count = 1
    /\ Len(applied) = 3
    /\ call.returned = NotPeelable
    /\ coded_symbol = call.before

\* peel returned a Remote symbol and left CodedSymbol::new()
C18_PeeledRemote ==
    /\ call.op = "peel"
    /\ call.before.count = -1
    /\ call.returned.kind = "Remote"
    /\ coded_symbol = CodedSymbol_new
    /\ call.before # CodedSymbol_new

(***************************************************************************)
(* C19  apply is its own inverse across directions: for any coded symbol c *)
(* and symbol s, apply(s, Add) followed by apply(s, Remove) restores the   *)
(* sum, hash and count of c.  In particular new() is empty and not         *)
(* peelable; with s1 added it is peelable; with a distinct s2 added as     *)
(* well it is not; and with s1 then removed it is peelable and peels to    *)
(* Local(s2).                                                              *)
(***************************************************************************)
\* the call being made is apply(s, Remove), right after apply(s, Add)
RemovedRightAfterAdded ==
    /\ call.op = "apply"
    /\ call.direction = Add
    /\ call'.op = "apply"
    /\ call'.direction = Remove
    /\ call'.s = call.s
    /\ applied' = Append(applied, <<call.s, Remove>>)

AsInTestSymbol ==
    /\ applied = <<>> =>
           /\ coded_symbol = CodedSymbol_new
           /\ CodedSymbol_is_empty(coded_symbol)
           /\ ~is_peelable(coded_symbol)
    /\ \A symbol1 \in SymbolValues : \A symbol2 \in SymbolValues \ {symbol1} :
           /\ applied = <<<<symbol1, Add>>>> => is_peelable(coded_symbol)
           /\ applied = <<<<symbol1, Add>>, <<symbol2, Add>>>> =>
                  ~is_peelable(coded_symbol)
           /\ applied = <<<<symbol1, Add>>, <<symbol2, Add>>, <<symbol1, Remove>>>> =>
                  /\ is_peelable(coded_symbol)
                  /\ peel(coded_symbol).result = Local(symbol2)

C19_ApplyIsSelfInverse ==
    /\ [](\A s \in SymbolValues :
              apply(apply(coded_symbol, s, Add), s, Remove) = coded_symbol)
    /\ [][RemovedRightAfterAdded => coded_symbol' = call.before]_vars
    /\ []AsInTestSymbol

\* test_symbol before its call to peel: symbol1 added, symbol2 added, symbol1
\* removed, and the coded symbol peelable
C19_Witness ==
    /\ Len(applied) = 3
    /\ applied[1][2] = Add /\ applied[2][2] = Add /\ applied[3][2] = Remove
    /\ applied[3][1] = applied[1][1]
    /\ applied[2][1] # applied[1][1]
    /\ call.op = "apply"
    /\ coded_symbol = apply(CodedSymbol_new, applied[2][1], Add)

(***************************************************************************)
(* C20  peel_one_symbol acts on the peelable position of lowest index: it  *)
(* returns the peel_peek result r of that position, with symbol t, and     *)
(* applies t, with Remove if r is Local and with Add if r is Remote, at    *)
(* the positions below the length of the stream that the mapping of t      *)
(* yields (once for every time it yields them), and changes no other       *)
(* position.  On a stream of length 0, or with no peelable position, it    *)
(* returns NotPeelable and changes nothing.                                *)
(***************************************************************************)
LowestPeelable(block) ==
    IF \E i \in 1..Len(block) : Peelable(block[i])
    THEN CHOOSE i \in 1..Len(block) :
             Peelable(block[i]) /\ \A j \in 1..(i - 1) : ~Peelable(block[j])
    ELSE 0

RECURSIVE ApplyTimes(_, _, _, _)
ApplyTimes(c, t, direction, n) ==
    IF n = 0 THEN c ELSE ApplyTimes(apply(c, t, direction), t, direction, n - 1)

RemovedAlongItsMapping(table, r) ==
    /\ Len(collapsed') = Len(collapsed)
    /\ \A p \in 0..(Len(collapsed) - 1) :
           collapsed'[p + 1] =
               ApplyTimes(collapsed[p + 1], r.symbol,
                          IF r.kind = "Local" THEN Remove ELSE Add,
                          Times(table, r.symbol, p))

PeeledLowest(i) ==
    IF i = 0
    THEN collapsed' = collapsed /\ peeled' = peeled
    ELSE /\ peeled' = Append(peeled, peel_peek(collapsed[i]))
         /\ RemovedAlongItsMapping(PositionsTable, peel_peek(collapsed[i]))

C20_PeelOneActsOnLowest ==
    [][(PeelOne /\ Running') => PeeledLowest(LowestPeelable(collapsed))]_vars

\* one symbol was peeled from a stream of three positions or more, along a
\* mapping that has two positions or more in the stream; symbols remain
C20_Witness ==
    /\ Running
    /\ Len(peeled) = 1
    /\ Len(collapsed) >= 3
    /\ Len(SelectSeq(Positions(peeled[1].symbol), LAMBDA p : p < Len(collapsed))) >= 2
    /\ \E p \in 1..Len(collapsed) : collapsed[p].count # 0

(***************************************************************************)
(* C21  As claimed: peeling keeps the holder the encoding of the residue.  *)
(* The holder returned by collapse encodes the signed difference D (local  *)
(* only +1, remote only -1) at every position; after each successful       *)
(* peel_one_symbol returning t it encodes D without t (and what was peeled *)
(* before) at every position, in count, sum and hash, and the position     *)
(* that was peeled is empty; when peel_all_symbols returns, the holder     *)
(* encodes the part of D not recovered and no position is peelable.        *)
(***************************************************************************)
\* the part of the difference not yet returned
Residue == ResidualAfter(Weights(local_items, remote_items), peeled)

EncodesResidue ==
    \A p \in 1..Len(collapsed) :
        collapsed[p] = FoldAt(PositionsTable, Residue, p - 1, SymbolValues)

\* every result was a symbol of D on its side, returned once: what is left
\* is D without the results
ResidueIsDifferenceWithoutResults ==
    \A s \in SymbolValues :
        Residue[s] = IF \E j \in 1..Len(peeled) : peeled[j].symbol = s
                     THEN 0
                     ELSE Weights(local_items, remote_items)[s]

PeeledPositionEmptied ==
    peeled' # peeled => collapsed'[LowestPeelable(collapsed)] = CodedSymbol_new

PeelsTrueSingleton ==
    /\ NoFalseSingleton
    /\ LowestPeelable(collapsed) # 0 =>
           Cardinality(Holding(PositionsTable, Residue,
                               LowestPeelable(collapsed) - 1)) = 1

StartsAtZero(s) == next(RandomMapping_new(s)).item = 0

CountsTheSet ==
    managed_peeled = <<>> =>
        /\ managed_local[1].count = Cardinality(local_items)
        /\ is_empty(managed_local) <=> local_items = {}

CountsTheDifference ==
    (managed_peeled = <<>> /\ peeled = <<>> /\ collapsed # <<>>) =>
        collapsed[1].count = Cardinality(local_items) - Cardinality(remote_items)

C22_EverySymbolAtPositionZero ==
    Running =>
        /\ \A s \in SymbolValues : StartsAtZero(s)
        /\ CountsTheSet
        /\ CountsTheDifference

\* the same, for sets that hold no symbol whose mapping yields position 0
\* twice
NoneTwiceAtZero ==
    \A s \in local_items \cup remote_items : Times(PositionsTable, s, 0) = 1

PositionZeroCountsOnceEach ==
    (Running /\ NoneTwiceAtZero) =>
        /\ \A s \in SymbolValues : StartsAtZero(s)
        /\ CountsTheSet
        /\ CountsTheDifference

(***************************************************************************)
(* C23  In the streaming loop (a received coded symbol is appended to the  *)
(* unmanaged holder, the local encoder is collapsed against the holder,    *)
(* the collapsed copy is peeled), collapse and the peeling of its result   *)
(* change neither the holder of the remote coded symbols nor a             *)
(* materialised position of the local encoder, and add_coded_symbol only   *)
(* appends.  The collapsed stream, until it is peeled, is position by      *)
(* position the collapse of these two streams: so the collapsed stream of  *)
(* round k + 1, on its first k positions, is the unpeeled collapsed stream *)
(* of round k.                                                             *)
(***************************************************************************)
OperandsKept ==
    /\ copy_of_remote' = copy_of_remote
    /\ managed_remote' = managed_remote
    /\ PrefixKept

OnlyAppended ==
    /\ Len(copy_of_remote') = Len(copy_of_remote) + 1
    /\ \A i \in 1..Len(copy_of_remote) : copy_of_remote'[i] = copy_of_remote[i]
    /\ PrefixKept

\* the collapsed stream of this round, not peeled yet
UnpeeledCollapseOfOperands ==
    (collapsed # <<>> /\ peeled = <<>>) =>
        /\ Len(collapsed) = Len(copy_of_remote)
        /\ Len(managed_local) >= Len(collapsed)
        /\ \A k \in 1..Len(collapsed) :
               collapsed[k] = CodedSymbol_collapse(managed_local[k], copy_of_remote[k])

C23_StreamingKeepsOperands ==
    /\ [][(Running' /\ (Collapse \/ PeelOne \/ PeelAll)) => OperandsKept]_vars
    /\ [][(Running' /\ Receive) => OnlyAppended]_vars
    /\ [](Running => UnpeeledCollapseOfOperands)

\* the third round or a later one: the holder has three coded symbols or
\* more, the local encoder was extended by collapse, symbols were peeled from
\* the collapsed copy and the operands still hold theirs
C23_Witness ==
    /\ Running
    /\ Len(copy_of_remote) >= 3
    /\ Len(collapsed) = Len(copy_of_remote)
    /\ Len(managed_local) > BLOCK_SIZE
    /\ Len(peeled) >= 2
    /\ is_empty(collapsed)
    /\ \E k \in 2..Len(copy_of_remote) :
           copy_of_remote[k].count > 0 /\ managed_local[k].count > 0

====
